---- MODULE Spec2Model ----
(***************************************************************************)
(* Contract / streak lifecycle of laosfactos.                              *)
(*                                                                         *)
(* The store is the Firestore subtree of one user (users/{uid}/contracts,  *)
(* logs, violations, contracts/{id}/journal).  The client is the React     *)
(* component Laosfactos of the latest App.jsx revision                     *)
(* (src/unnamed/part_002): its state is what the onSnapshot callbacks last *)
(* delivered plus the view routing state.  The scheduled settlement jobs   *)
(* are weeklyRollover and dailyAutoKeep of src/functions/index.js; every   *)
(* await in them is a step boundary.                                       *)
(*                                                                         *)
(* Dates are day numbers (the code uses 'YYYY-MM-DD' strings of the UTC    *)
(* date); an instant is a tick count, TicksPerDay ticks to the day.        *)
(*                                                                         *)
(* A write reaches the store when its handler runs (no queue of offline    *)
(* writes); what is late is the client's view of the store: the snapshot   *)
(* callbacks run at any later moment.  In Spec one scheduled invocation   *)
(* is under way at a time; SpecSettle has two that may overlap.            *)
(*                                                                         *)
(* Beside the lifecycle (Spec) the module has a specification for each of  *)
(* the parts of the program that share no state with it but the contracts  *)
(* of the user: the briefings (SpecBriefing), the loop of a scheduled job  *)
(* over the users (SpecJobs), the callable functions (SpecCalls), the      *)
(* trigger on journal entries (SpecReply), the contract slots of the      *)
(* Dashboard (SpecQuota), the migration of a user (SpecMigrate) and the    *)
(* create wizard (SpecWizard; its handleAiDraft is the one of              *)
(* src/src/App.jsx, the latest revision having lost the line of the call). *)
(* Each leaves the variables of the others as they are at the start.       *)
(***************************************************************************)
EXTENDS Integers, Sequences, FiniteSets, Bags, TLC

\* ---------------------------------------------------------------- bounds
MaxDay == 2
MaxStreak == 2
MaxLogs == 2
TicksPerDay == 2
MaxBriefings == 2
MaxUsers == 3
MaxTemptations == 2
MaxAiRequests == 2
MaxResisted == 2
MaxEntries == 2
MaxDeliveries == 2
MaxContracts == 11
MaxSourceContracts == 2
MaxSourceLogs == 2
MaxAiExceptions == 6

\* ------------------------------------------------------------- constants
MAX_ACTIVE_CONTRACTS == 10
MAX_EXCEPTIONS == 5
DefaultGoal == 3
DaysPerWeek == 7

ContractIds == {1}            \* the documents of users/{uid}/contracts
Days == 1..MaxDay
NoDate == -1                 \* null / '' / undefined date
Unset == "<unset>"           \* a field the document does not carry
NoContract == 0              \* activeViolationContract === null
\* invocations of a scheduled job: the firing of the schedule and an
\* invocation that overlaps it (a repeated delivery or a manual retry)
RunIds == {"cron", "retry"}
\* the lifecycle specification has the invocations one after the other
CronRuns == {"cron"}

VIOLATION_REASONS == {"Impulse"}
HeaderViews == {"dashboard"}
Stories == {"", "ate cake"}
Decisions == {"recommit", "pause", "retire"}
CheckInStatuses == {"kept", "exception"}   \* what the card buttons pass
TimesOfDay == {"morning", "evening"}       \* the two briefing slots
\* who calls processUserBriefing: the scheduled batch, the manual trigger
BriefingCallers == {"processBriefingBatch", "triggerBriefing"}
Users == 1..MaxUsers         \* usersSnapshot.docs, in the order of the query
ScheduledJobs == {"weeklyRollover", "dailyAutoKeep", "processBriefingBatch"}

\* the callable functions (onCall) of src/functions/index.js
AICallables == {"consultOracle", "draftContract", "auditContract",
                "judgeViolation"}
TemptationIds == 1..MaxTemptations
NoTemptation == 0            \* no temptationId in the request
Outcomes == {"resisted", "relapsed"}
OutcomeArgs == Outcomes \cup {"later"}    \* request.data.outcome
\* the client helpers that wrap a callable in try/catch, "none": no helper
Wrappers == {"callAIJudge", "callAIDrafting", "none"}

EntryIds == 1..MaxEntries    \* contracts/{id}/journal documents
EntryTypes == {"manual", "auto"}

Sessions == {"a", "b"}       \* pages of the user that are open (tabs, devices)

VARIABLES
    today,                   \* the current UTC calendar date
    contracts,               \* users/{uid}/contracts: id -> document
    nextId,                  \* ids handed out so far by addDoc
    logs,                    \* users/{uid}/logs: a bag of documents
    violations,              \* users/{uid}/violations: a bag of documents
    journal,                 \* contracts/{id}/journal: a bag of documents
    snapContracts,           \* React state `contracts` (last snapshot)
    contractsLoading,        \* React state `contractsLoading`
    todayLogs,               \* React state `todayLogs` (last snapshot)
    subDate,                 \* `today` captured by the logs subscription
    view,                    \* React state `view`
    activeViolationContract, \* React state `activeViolationContract`
    pending,                 \* handleViolation calls suspended at the await
    runs,                    \* invocations of the scheduled jobs
    dailyBriefing,           \* users/{uid}.dailyBriefing: slot -> date stored
    briefing,                \* calls of processUserBriefing under way
    generated,               \* briefing texts the model produced (a bag)
    pushes,                  \* notifications handed to messaging (a bag)
    batchJob,                \* the scheduled job going through the users
    userPc,                  \* where that job is with each user
    call,                    \* the callable invocation under way
    response,                \* what the last invocation returned or threw
    wrapperResult,           \* what the client helper last returned
    aiRequests,              \* model.generateContent calls of callables
    temptations,             \* contracts/{id}/temptations: id -> outcome
    resistedCount,           \* the contract's resistedCount
    entryDocs,               \* journal entries: id -> type, aiReply writes
    events,                  \* deliveries to come of each creation event
    replying,                \* onJournalEntryCreated runs past the checks
    contractDocs,            \* users/{uid}/contracts as a bag of documents
    slotsUsed,               \* Dashboard slotsUsed of each page's snapshot
    sessionView,             \* React state `view` of each page
    migration,               \* the migrateUserData call: where it is
    targetDocs,              \* documents written under users/{targetUid}
    results,                 \* migrateUserData `results`
    migrateResponse,         \* what migrateUserData returned or threw
    wizard,                  \* CreateContract: mounted, step, AI box, signed
    formData,                \* CreateContract formData
    savedDraft,              \* localStorage 'laosfactos_draft' (none or one)
    submitted                \* the contractData the wizard has submitted

storeVars == <<contracts, nextId, logs, violations, journal>>
clientVars == <<snapContracts, contractsLoading, todayLogs, subDate, view,
                activeViolationContract, pending>>
briefingVars == <<dailyBriefing, briefing, generated, pushes>>
lifecycleVars == <<today, storeVars, clientVars, runs>>
\* what the lifecycle handlers and the settlement jobs never touch
jobVars == <<batchJob, userPc>>
callVars == <<call, response, wrapperResult, aiRequests, temptations,
              resistedCount>>
replyVars == <<entryDocs, events, replying>>
quotaVars == <<contractDocs, slotsUsed, sessionView>>
migrateVars == <<migration, targetDocs, results, migrateResponse>>
wizardVars == <<wizard, formData, savedDraft, submitted>>
sideVars ==
    <<briefingVars, jobVars, callVars, replyVars, quotaVars, migrateVars, wizardVars>>
vars == <<lifecycleVars, sideVars>>
outsideBriefing == <<jobVars, callVars, replyVars, quotaVars, migrateVars, wizardVars>>
outsideJobs ==
    <<lifecycleVars, briefingVars, callVars, replyVars, quotaVars, migrateVars, wizardVars>>
outsideCalls ==
    <<lifecycleVars, briefingVars, jobVars, replyVars, quotaVars, migrateVars, wizardVars>>
outsideReply ==
    <<lifecycleVars, briefingVars, jobVars, callVars, quotaVars, migrateVars, wizardVars>>
outsideMigrate ==
    <<lifecycleVars, briefingVars, jobVars, callVars, replyVars, quotaVars,
      wizardVars>>
outsideWizard ==
    <<lifecycleVars, briefingVars, jobVars, callVars, replyVars, quotaVars,
      migrateVars>>
outsideQuota ==
    <<lifecycleVars, briefingVars, jobVars, callVars, replyVars, migrateVars, wizardVars>>

\* ------------------------------------------------------------ documents
\* (archivedAt, createdAt, title and the other fields no handler reads
\* back are left out)
NoDoc ==
    [exists |-> FALSE, status |-> Unset, streak |-> 0, outcome |-> Unset,
     failureReason |-> Unset, type |-> Unset, autoKeep |-> FALSE,
     startDate |-> NoDate, endDate |-> NoDate, weekly |-> FALSE,
     timesPerWeek |-> 0, completedCount |-> 0, weekStart |-> NoDate,
     lastCheckInDate |-> NoDate, lastCheckIn |-> NoDate]

\* The contractData the create wizard of this revision submits: a daily
\* contract that starts today, with or without an end date.
WizardContractData(day) ==
    { [type |-> "DO", autoKeep |-> FALSE, endDate |-> e, weekly |-> FALSE,
       timesPerWeek |-> 0, completedCount |-> 0] : e \in {NoDate, day} }

\* The contracts the settlement jobs query for: an AVOID contract flagged
\* autoKeep, and a contract with frequency {type: 'weekly', timesPerWeek}
\* and weeklyProgress {weekStart, completedCount, lastCheckInDate}.  A
\* weekly contract is made with a goal of at least one and the progress of
\* its first week.
SettledContractData ==
    { [type |-> "AVOID", autoKeep |-> TRUE, endDate |-> NoDate,
       weekly |-> FALSE, timesPerWeek |-> 0, completedCount |-> 0] }
    \cup
    { [type |-> "DO", autoKeep |-> FALSE, endDate |-> NoDate,
       weekly |-> TRUE, timesPerWeek |-> w[1], completedCount |-> w[2]] :
         w \in {<<2, 1>>, <<2, 2>>} }

ContractData(day) == WizardContractData(day) \cup SettledContractData

NewContract(data, day) ==
    [exists |-> TRUE, status |-> "active", streak |-> 0, outcome |-> Unset,
     failureReason |-> Unset, type |-> data.type, autoKeep |-> data.autoKeep,
     startDate |-> day, endDate |-> data.endDate, weekly |-> data.weekly,
     timesPerWeek |-> data.timesPerWeek,
     completedCount |-> data.completedCount,
     weekStart |-> IF data.weekly THEN day ELSE NoDate,
     lastCheckInDate |-> IF data.completedCount > 0 THEN day ELSE NoDate,
     lastCheckIn |-> NoDate]

\* What the component reads of a contract of its `contracts` state
SnapOf(doc) ==
    [exists |-> doc.exists, status |-> doc.status, streak |-> doc.streak,
     startDate |-> doc.startDate, endDate |-> doc.endDate]

NewLog(c, date, status, source) ==
    [contractId |-> c, date |-> date, status |-> status, source |-> source]

ViolationRecord(c) == [contractId |-> c]

JournalEntry(c, type) == [contractId |-> c, type |-> type]

\* --------------------------------------------------------------- helpers
\* A collection holds documents under generated ids; documents that differ
\* in their id only are copies of one element of the bag.
AddDoc(col, d) == col (+) SetToBag({d})

LogsOf(ls, c, date) ==
    { l \in BagToSet(ls) : l.contractId = c /\ l.date = date }

RECURSIVE Copies(_, _)
Copies(col, ds) ==
    IF ds = {} THEN 0
    ELSE LET d == CHOOSE x \in ds : TRUE
         IN  CopiesIn(d, col) + Copies(col, ds \ {d})

\* the number of Daily Logs of a contract and a date
NumLogs(ls, c, date) == Copies(ls, LogsOf(ls, c, date))

\* variant: Math.floor(a / b) for b > 0
Floor(a, b) == a \div b

\* Math.ceil(a / b) for b > 0
Ceil(a, b) == -((-a) \div b)

\* ContractCard.getDaysRemaining: `end` is UTC midnight of endDate, `now`
\* the instant of the render; null for a contract without endDate.
MsPerDay == TicksPerDay
getDaysRemaining(endDate, now) == Ceil(endDate * TicksPerDay - now, MsPerDay)

\* variant: expired from the end date on
isExpiredFromEndDate(doc, now) ==
    doc.endDate # NoDate /\ getDaysRemaining(doc.endDate, now) <= 0

isExpired(doc, now) ==
    doc.endDate # NoDate /\ getDaysRemaining(doc.endDate, now) < 0

isFuture(doc, todayStr) == doc.startDate # NoDate /\ doc.startDate > todayStr

Instants(day) == { day * TicksPerDay + t : t \in 0..(TicksPerDay - 1) }

\* Dashboard: a ContractCard is rendered for the contracts the last
\* snapshot shows as active, once the first snapshot has arrived.
CardShown(c) ==
    /\ view = "dashboard"
    /\ ~contractsLoading
    /\ snapContracts[c].exists
    /\ snapContracts[c].status = "active"

isDone(c) == todayLogs[c]

isFull ==
    Cardinality({ c \in ContractIds : snapContracts[c].exists
                     /\ snapContracts[c].status = "active" })
        >= MAX_ACTIVE_CONTRACTS

\* ------------------------------------------------------------ the store
\* batch.update / updateDoc need the document to exist; set and delete do
\* not.  A commit applies all its writes or, failing, none.
CanUpdate(c) == contracts[c].exists

\* --------------------------------------------------- client: snapshots
\* onSnapshot(contracts): setContracts(all documents)
ContractsSnapshot ==
    /\ (contractsLoading \/ snapContracts # [c \in ContractIds |-> SnapOf(contracts[c])])
    /\ snapContracts' = [c \in ContractIds |-> SnapOf(contracts[c])]
    /\ contractsLoading' = FALSE
    /\ UNCHANGED <<today, storeVars, todayLogs, subDate, view,
                   activeViolationContract, pending, runs>>
    /\ UNCHANGED sideVars

LogsQuery(date) ==
    [c \in ContractIds |-> LogsOf(logs, c, date) # {}]

\* onSnapshot(logs where date == the day of the subscription)
LogsSnapshot ==
    /\ todayLogs # LogsQuery(subDate)
    /\ todayLogs' = LogsQuery(subDate)
    /\ UNCHANGED <<today, storeVars, snapContracts, contractsLoading, subDate,
                   view, activeViolationContract, pending, runs>>
    /\ UNCHANGED sideVars

\* The page is loaded again: all React state starts over and the effect
\* subscribes with the date of that moment.
Reload ==
    /\ snapContracts' = [c \in ContractIds |-> SnapOf(NoDoc)]
    /\ contractsLoading' = TRUE
    /\ todayLogs' = [c \in ContractIds |-> FALSE]
    /\ subDate' = today
    /\ view' = "dashboard"
    /\ activeViolationContract' = NoContract
    /\ pending' = 0
    /\ UNCHANGED <<today, storeVars, runs>>
    /\ UNCHANGED sideVars

\* Header: the logo calls setView('dashboard') from any view.  The history
\* and review views offer no operation on a contract and are left out.
SetView(v) ==
    /\ view # v
    /\ view' = v
    /\ UNCHANGED <<today, storeVars, snapContracts, contractsLoading,
                   todayLogs, subDate, activeViolationContract, pending, runs>>
    /\ UNCHANGED sideVars

\* ----------------------------------------------------- client: create
\* Dashboard: the NEW button is rendered unless isFull
OpenCreate ==
    /\ view = "dashboard"
    /\ ~contractsLoading
    /\ ~isFull
    /\ nextId + 1 \in ContractIds
    /\ view' = "create"
    /\ UNCHANGED <<today, storeVars, snapContracts, contractsLoading,
                   todayLogs, subDate, activeViolationContract, pending, runs>>
    /\ UNCHANGED sideVars

\* CreateContract.handleCommit -> handleCreateContract: addDoc, then
\* setView('dashboard').  The sealing screen takes no input, so one wizard
\* submits once.
HandleCreateContract(data) ==
    /\ view = "create"
    /\ nextId + 1 \in ContractIds
    /\ nextId' = nextId + 1
    /\ contracts' = [contracts EXCEPT ![nextId + 1] = NewContract(data, today)]
    /\ view' = "dashboard"
    /\ UNCHANGED <<today, logs, violations, journal, snapContracts,
                   contractsLoading, todayLogs, subDate,
                   activeViolationContract, pending, runs>>
    /\ UNCHANGED sideVars

\* ---------------------------------------------------- client: check-in
CheckInStreak(snap, status) ==
    IF status = "kept" THEN snap.streak + 1 ELSE snap.streak

\* a check-in batch that credits the streak of the stored contract
CheckInBatchStored(c, status) ==
    /\ logs' = AddDoc(logs, NewLog(c, today, status, Unset))
    /\ contracts' = [contracts EXCEPT
           ![c].lastCheckIn = today,
           ![c].streak = CheckInStreak(contracts[c], status)]

CheckInBatch(c, status) ==
    /\ logs' = AddDoc(logs, NewLog(c, today, status, Unset))
    /\ contracts' = [contracts EXCEPT
           ![c].lastCheckIn = today,
           ![c].streak = CheckInStreak(snapContracts[c], status)]

\* ContractCard: Kept / Mark as Exception are rendered when the card is
\* neither pending start, expired nor done
CheckInOffered(c, now) ==
    /\ CardShown(c)
    /\ ~isFuture(snapContracts[c], today)
    /\ ~isExpired(snapContracts[c], now)
    /\ ~isDone(c)

\* handleCheckIn, the commit succeeding
HandleCheckIn(c, status) ==
    /\ \E now \in Instants(today) : CheckInOffered(c, now)
    /\ snapContracts[c].exists
    /\ CanUpdate(c)
    /\ BagCardinality(logs) < MaxLogs
    /\ CheckInStreak(snapContracts[c], status) <= MaxStreak
    /\ CheckInBatch(c, status)
    /\ UNCHANGED <<today, nextId, violations, journal, clientVars, runs>>
    /\ UNCHANGED sideVars

\* handleCheckIn, the commit failing: caught and logged, nothing written
HandleCheckInFailed(c) ==
    /\ \E now \in Instants(today) : CheckInOffered(c, now)
    /\ snapContracts[c].exists
    /\ UNCHANGED vars
    /\ UNCHANGED sideVars

\* ---------------------------------------------------- client: violation
\* ContractCard "Broke it": onReportViolation(contract)
OpenViolation(c) ==
    /\ \E now \in Instants(today) : CheckInOffered(c, now)
    /\ activeViolationContract' = c
    /\ view' = "violation"
    /\ UNCHANGED <<today, storeVars, snapContracts, contractsLoading,
                   todayLogs, subDate, pending, runs>>
    /\ UNCHANGED sideVars

\* ViolationFlow Cancel
CancelViolation ==
    /\ view = "violation"
    /\ activeViolationContract # NoContract
    /\ activeViolationContract' = NoContract
    /\ view' = "dashboard"
    /\ UNCHANGED <<today, storeVars, snapContracts, contractsLoading,
                   todayLogs, subDate, pending, runs>>
    /\ UNCHANGED sideVars

\* variant: the streak is left as it was
ViolationUpdatesKeepStreak(doc, data, day) ==
    LET touched == [doc EXCEPT !.lastCheckIn = day]
    IN  CASE data.decision = "pause" ->
               [touched EXCEPT !.status = "paused"]
          [] data.decision = "retire" ->
               [touched EXCEPT !.status = "archived",
                               !.outcome = "breached",
                               !.failureReason =
                                   IF data.story # "" THEN data.story
                                                      ELSE data.reason]
          [] OTHER -> touched

\* variant: failureReason is always the reason code
ViolationUpdatesReasonCode(doc, data, day) ==
    LET reset == [doc EXCEPT !.streak = 0, !.lastCheckIn = day]
    IN  CASE data.decision = "pause" ->
               [reset EXCEPT !.status = "paused"]
          [] data.decision = "retire" ->
               [reset EXCEPT !.status = "archived",
                             !.outcome = "breached",
                             !.failureReason = data.reason]
          [] OTHER -> reset

\* `updates` of handleViolation
ViolationUpdates(doc, data, day) ==
    LET reset == [doc EXCEPT !.streak = 0, !.lastCheckIn = day]
    IN  CASE data.decision = "pause" ->
               [reset EXCEPT !.status = "paused"]
          [] data.decision = "retire" ->
               [reset EXCEPT !.status = "archived",
                             !.outcome = "breached",
                             !.failureReason =
                                 IF data.story # "" THEN data.story
                                                    ELSE data.reason]
          [] OTHER -> reset

\* variant: three separate writes, the last of which is lost
ViolationBatchPartial(c, data) ==
    /\ violations' = AddDoc(violations, ViolationRecord(c))
    /\ logs' = AddDoc(logs, NewLog(c, today, "broken", Unset))
    /\ contracts' = contracts

\* the three writes of the batch of handleViolation
ViolationBatch(c, data) ==
    /\ violations' = AddDoc(violations, ViolationRecord(c))
    /\ logs' = AddDoc(logs, NewLog(c, today, "broken", Unset))
    /\ contracts' = [contracts EXCEPT
           ![c] = ViolationUpdates(contracts[c], data, today)]

ViolationData ==
    [reason : VIOLATION_REASONS, story : Stories, decision : Decisions]

\* ViolationFlow is rendered, so "Log & Reset" can be pressed
ViolationOffered == view = "violation" /\ activeViolationContract # NoContract

\* handleViolation up to `await batch.commit()`, the commit succeeding
HandleViolation(data) ==
    /\ ViolationOffered
    /\ CanUpdate(activeViolationContract)
    /\ BagCardinality(logs) < MaxLogs
    /\ ViolationBatch(activeViolationContract, data)
    /\ pending' = pending + 1
    /\ UNCHANGED <<today, nextId, journal, snapContracts, contractsLoading,
                   todayLogs, subDate, view, activeViolationContract, runs>>
    /\ UNCHANGED sideVars

\* handleViolation, the commit failing: the catch logs it, the view stays
HandleViolationFailed ==
    /\ ViolationOffered
    /\ UNCHANGED vars
    /\ UNCHANGED sideVars

\* handleViolation after the await, run when the commit is acknowledged:
\* setActiveViolationContract(null); setView('dashboard')
ViolationCommitted ==
    /\ pending > 0
    /\ pending' = pending - 1
    /\ view' = "dashboard"
    /\ activeViolationContract' = NoContract
    /\ UNCHANGED <<today, storeVars, snapContracts, contractsLoading,
                   todayLogs, subDate, runs>>
    /\ UNCHANGED sideVars

\* ----------------------------------------------------- client: complete
\* ContractCard: "Claim Victory & Archive" is rendered when isExpired
CompleteOffered(c, now) ==
    /\ CardShown(c)
    /\ ~isFuture(snapContracts[c], today)
    /\ isExpired(snapContracts[c], now)

CompleteUpdates(doc, day) ==
    [doc EXCEPT !.status = "archived", !.outcome = "completed"]

\* handleCompleteContract, updateDoc succeeding
HandleCompleteContract(c) ==
    /\ \E now \in Instants(today) : CompleteOffered(c, now)
    /\ CanUpdate(c)
    /\ contracts' = [contracts EXCEPT ![c] = CompleteUpdates(contracts[c], today)]
    /\ UNCHANGED <<today, nextId, logs, violations, journal, clientVars, runs>>
    /\ UNCHANGED sideVars

\* handleCompleteContract, updateDoc failing: caught, alert
HandleCompleteContractFailed(c) ==
    /\ \E now \in Instants(today) : CompleteOffered(c, now)
    /\ UNCHANGED vars
    /\ UNCHANGED sideVars

\* ------------------------------------------------------- client: delete
\* variant: the delete cascades to the logs of the contract
HandleDeleteContractCascade(c) ==
    /\ CardShown(c)
    /\ contracts' = [contracts EXCEPT ![c] = NoDoc]
    /\ logs' = [l \in { d \in BagToSet(logs) : d.contractId # c } |-> logs[l]]
    /\ UNCHANGED <<today, nextId, violations, journal, clientVars, runs>>
    /\ UNCHANGED sideVars

\* handleDeleteContract (menu "Void Contract", confirmed)
HandleDeleteContract(c) ==
    /\ CardShown(c)
    /\ contracts' = [contracts EXCEPT ![c] = NoDoc]
    /\ UNCHANGED <<today, nextId, logs, violations, journal, clientVars, runs>>
    /\ UNCHANGED sideVars

\* ---------------------------------------------------------------- time
\* Midnight (UTC).  The window of days starts when the contract is made,
\* and no job invocation is under way at midnight.
Tick ==
    /\ today < MaxDay
    /\ nextId > 0
    /\ \A r \in RunIds : runs[r].job = "idle"
    /\ today' = today + 1
    /\ UNCHANGED <<storeVars, clientVars, runs>>
    /\ UNCHANGED sideVars

\* ------------------------------------------------------ scheduled jobs
\* What a job reads of a contract document of its query result
ReadOf(doc) ==
    [exists |-> doc.exists, streak |-> doc.streak,
     timesPerWeek |-> doc.timesPerWeek, completedCount |-> doc.completedCount]

IdleRun == [job |-> "idle", pc |-> "idle", day |-> NoDate,
            docs |-> [c \in ContractIds |-> ReadOf(NoDoc)], logged |-> {}]

\* weeklyRollover: contracts where status == 'active' and
\* frequency.type == 'weekly'
WeeklyQuery(c) ==
    contracts[c].exists /\ contracts[c].status = "active" /\ contracts[c].weekly

\* dailyAutoKeep: contracts where status == 'active', type == 'AVOID' and
\* autoKeep == true
DailyQuery(c) ==
    /\ contracts[c].exists
    /\ contracts[c].status = "active"
    /\ contracts[c].type = "AVOID"
    /\ contracts[c].autoKeep

\* contractsSnap: the documents a query returned, as read
QueryResult(matches) ==
    [c \in ContractIds |->
        IF c \in matches THEN ReadOf(contracts[c]) ELSE ReadOf(NoDoc)]

InResult(r, c) == runs[r].docs[c].exists

\* schedule: "every monday 00:01".  Day 1 of the window is a Sunday.
IsMonday(day) == day % DaysPerWeek = 2 % DaysPerWeek

\* weeklyRollover up to `await batch.commit()`: the query, newWeekStart
\* and the batch built from the documents read
WeeklyRead(r) ==
    /\ runs[r].job = "idle"
    /\ IsMonday(today)
    /\ \E c \in ContractIds : WeeklyQuery(c)
    /\ runs' = [runs EXCEPT ![r] =
           [job |-> "weekly", pc |-> "commit", day |-> today,
            docs |-> QueryResult({ c \in ContractIds : WeeklyQuery(c) }), logged |-> {}]]
    /\ UNCHANGED <<today, storeVars, clientVars>>
    /\ UNCHANGED sideVars

\* `contract.frequency?.timesPerWeek || 3`
WeeklyGoal(doc) == IF doc.timesPerWeek = 0 THEN DefaultGoal ELSE doc.timesPerWeek

\* variant: the goal has to be exceeded
metGoalExceeded(doc) == doc.completedCount > WeeklyGoal(doc)

metGoal(doc) == doc.completedCount >= WeeklyGoal(doc)

\* variant: a week below the goal leaves the streak as it was
WeeklyNewStreakKept(doc) == IF metGoal(doc) THEN doc.streak + 1 ELSE doc.streak

WeeklyNewStreak(doc) == IF metGoal(doc) THEN doc.streak + 1 ELSE 0

\* batch.update(contractDoc.ref, {streak, weeklyProgress})
WeeklyUpdates(cur, read, newWeekStart) ==
    [cur EXCEPT !.streak = WeeklyNewStreak(read),
                !.completedCount = 0,
                !.weekStart = newWeekStart,
                !.lastCheckInDate = NoDate]

\* weeklyRollover: `await batch.commit()` succeeding
WeeklyCommit(r) ==
    /\ runs[r].job = "weekly"
    /\ runs[r].pc = "commit"
    /\ \A c \in ContractIds : InResult(r, c) =>
           CanUpdate(c) /\ WeeklyNewStreak(runs[r].docs[c]) <= MaxStreak
    /\ contracts' = [c \in ContractIds |->
           IF InResult(r, c)
           THEN WeeklyUpdates(contracts[c], runs[r].docs[c], runs[r].day)
           ELSE contracts[c]]
    /\ runs' = [runs EXCEPT ![r] = IdleRun]
    /\ UNCHANGED <<today, nextId, logs, violations, journal, clientVars>>
    /\ UNCHANGED sideVars

\* dailyAutoKeep: yesterdayStr and the contracts query
DailyReadContracts(r) ==
    /\ runs[r].job = "idle"
    /\ \E c \in ContractIds : DailyQuery(c)
    /\ runs' = [runs EXCEPT ![r] =
           [job |-> "daily", pc |-> "logs", day |-> today - 1,
            docs |-> QueryResult({ c \in ContractIds : DailyQuery(c) }), logged |-> {}]]
    /\ UNCHANGED <<today, storeVars, clientVars>>
    /\ UNCHANGED sideVars

\* variant: the logs of yesterday are not looked at
LoggedContractIdsUnread(yesterdayStr) == {}

\* loggedContractIds: the contractId of every log dated yesterdayStr
LoggedContractIds(yesterdayStr) ==
    { l.contractId : l \in { d \in BagToSet(logs) : d.date = yesterdayStr } }

\* dailyAutoKeep: the logs query
DailyReadLogs(r) ==
    /\ runs[r].job = "daily"
    /\ runs[r].pc = "logs"
    /\ runs' = [runs EXCEPT ![r].pc = "commit",
                            ![r].logged = LoggedContractIds(runs[r].day)]
    /\ UNCHANGED <<today, storeVars, clientVars>>
    /\ UNCHANGED sideVars

\* the contracts the batch of a run writes for
AutoKept(r) ==
    { c \in ContractIds : InResult(r, c) /\ c \notin runs[r].logged }

AutoKeepLogs(r) ==
    logs (+) SetToBag({ NewLog(c, runs[r].day, "kept", "auto") :
                           c \in AutoKept(r) })

AutoKeepJournal(r) ==
    journal (+) SetToBag({ JournalEntry(c, "auto") : c \in AutoKept(r) })

\* variant: the streak is written back as read
AutoKeepUpdatesNoCredit(cur, read, now) ==
    [cur EXCEPT !.streak = read.streak, !.lastCheckIn = now]

\* variant: the streak is raised in the store (FieldValue.increment(1))
AutoKeepUpdatesIncrement(cur, read, now) ==
    [cur EXCEPT !.streak = cur.streak + 1, !.lastCheckIn = now]

\* batch.update(contractDoc.ref, {streak: currentStreak + 1, lastCheckIn})
AutoKeepUpdates(cur, read, now) ==
    [cur EXCEPT !.streak = read.streak + 1, !.lastCheckIn = now]

\* dailyAutoKeep: `if (userUpdates > 0) await batch.commit()` succeeding
DailyCommit(r) ==
    /\ runs[r].job = "daily"
    /\ runs[r].pc = "commit"
    /\ \A c \in AutoKept(r) :
           CanUpdate(c) /\ runs[r].docs[c].streak + 1 <= MaxStreak
    /\ BagCardinality(logs) + Cardinality(AutoKept(r)) <= MaxLogs
    /\ logs' = AutoKeepLogs(r)
    /\ journal' = AutoKeepJournal(r)
    /\ contracts' = [c \in ContractIds |->
           IF c \in AutoKept(r)
           THEN AutoKeepUpdates(contracts[c], runs[r].docs[c], today)
           ELSE contracts[c]]
    /\ runs' = [runs EXCEPT ![r] = IdleRun]
    /\ UNCHANGED <<today, nextId, violations, clientVars>>
    /\ UNCHANGED sideVars

\* variant: a failing auto-keep commit has written its logs
JobFailedPartial(r) ==
    /\ runs[r].job # "idle"
    /\ runs' = [runs EXCEPT ![r] = IdleRun]
    /\ logs' = IF runs[r].job = "daily" /\ runs[r].pc = "commit"
                    /\ BagCardinality(logs) + Cardinality(AutoKept(r)) <= MaxLogs
                THEN AutoKeepLogs(r) ELSE logs
    /\ UNCHANGED <<today, contracts, nextId, violations, journal, clientVars>>
    /\ UNCHANGED sideVars

\* a query or the commit throws: the per-user catch logs it and the run
\* goes on to the next user
JobFailed(r) ==
    /\ runs[r].job # "idle"
    /\ runs' = [runs EXCEPT ![r] = IdleRun]
    /\ UNCHANGED <<today, storeVars, clientVars>>
    /\ UNCHANGED sideVars

\* ------------------------------------------------------------ briefings
\* processUserBriefing(userDoc, model, timeOfDay), called by
\* processBriefingBatch for every user of its query and by triggerBriefing
\* for the user of the request.  Every await after the user document was
\* read is a step boundary.
IdleBriefing == [pc |-> "idle", timeOfDay |-> "morning"]

BriefingOf(timeOfDay, date) == [timeOfDay |-> timeOfDay, date |-> date]

\* an idempotency test that never finds the stored briefing
alreadySentNever(timeOfDay) == FALSE

\* the idempotency test on the user document the caller has just read
alreadySent(timeOfDay) ==
    /\ dailyBriefing[timeOfDay] # NoDate
    /\ dailyBriefing[timeOfDay] = today

hasActiveContracts ==
    \E c \in ContractIds : contracts[c].exists /\ contracts[c].status = "active"

\* the caller reads the user document and calls processUserBriefing, which
\* returns at once when the stored briefing of the slot is dated today
ProcessUserBriefing(r, timeOfDay) ==
    /\ briefing[r].pc = "idle"
    /\ briefing' = IF alreadySent(timeOfDay) THEN briefing
                   ELSE [briefing EXCEPT ![r] =
                            [pc |-> "contracts", timeOfDay |-> timeOfDay]]
    /\ UNCHANGED <<lifecycleVars, outsideBriefing, dailyBriefing, generated, pushes>>

\* the query of the active contracts; none: return
BriefingContracts(r) ==
    /\ briefing[r].pc = "contracts"
    /\ briefing' = [briefing EXCEPT ![r] =
           IF hasActiveContracts THEN [@ EXCEPT !.pc = "generate"]
           ELSE IdleBriefing]
    /\ UNCHANGED <<lifecycleVars, outsideBriefing, dailyBriefing, generated, pushes>>

\* the journal queries and the two model.generateContent calls
BriefingGenerate(r) ==
    /\ briefing[r].pc = "generate"
    /\ BagCardinality(generated) < MaxBriefings
    /\ generated' = AddDoc(generated, BriefingOf(briefing[r].timeOfDay, today))
    /\ briefing' = [briefing EXCEPT ![r].pc = "store"]
    /\ UNCHANGED <<lifecycleVars, outsideBriefing, dailyBriefing, pushes>>

\* set({dailyBriefing: {[timeOfDay]: {.., timestamp}}}, {merge: true})
BriefingStore(r) ==
    /\ briefing[r].pc = "store"
    /\ dailyBriefing' = [dailyBriefing EXCEPT ![briefing[r].timeOfDay] = today]
    /\ briefing' = [briefing EXCEPT ![r].pc = "send"]
    /\ UNCHANGED <<lifecycleVars, outsideBriefing, generated, pushes>>

\* admin.messaging().send
BriefingSend(r) ==
    /\ briefing[r].pc = "send"
    /\ pushes' = AddDoc(pushes, BriefingOf(briefing[r].timeOfDay, today))
    /\ briefing' = [briefing EXCEPT ![r] = IdleBriefing]
    /\ UNCHANGED <<lifecycleVars, outsideBriefing, dailyBriefing, generated>>

\* a query, the model, the set or the send throws: the catch logs it
BriefingFailed(r) ==
    /\ briefing[r].pc # "idle"
    /\ briefing' = [briefing EXCEPT ![r] = IdleBriefing]
    /\ UNCHANGED <<lifecycleVars, outsideBriefing, dailyBriefing, generated, pushes>>

\* midnight, no briefing under way
BriefingMidnight ==
    /\ today < MaxDay
    /\ \A r \in BriefingCallers : briefing[r].pc = "idle"
    /\ today' = today + 1
    /\ UNCHANGED <<storeVars, clientVars, runs, briefingVars, outsideBriefing>>

\* ------------------------------------------- scheduled jobs: the users
\* weeklyRollover and dailyAutoKeep go through usersSnapshot.docs in a for
\* loop, one user after the other, the body of the loop in a try/catch;
\* processBriefingBatch starts processUserBriefing for every user and
\* awaits them all, the body of processUserBriefing in a try/catch.
StepsOf(job) ==
    IF job = "processBriefingBatch"
    THEN <<"read", "generate", "store", "send">>
    ELSE <<"read", "commit">>

Ended == {"processed", "caught"}

InLoop(job) == job # "processBriefingBatch"

\* the user the job is working on
CanRun(u) ==
    /\ batchJob # "idle"
    /\ userPc[u] \notin Ended
    /\ InLoop(batchJob) => \A v \in Users : v < u => userPc[v] \in Ended

StepAfter(job, pc) ==
    LET steps == StepsOf(job)
        i == CHOOSE k \in 1..Len(steps) : steps[k] = pc
    IN  IF i = Len(steps) THEN "processed" ELSE steps[i + 1]

\* the users query has answered
StartJob(job) ==
    /\ batchJob = "idle"
    /\ batchJob' = job
    /\ userPc' = [u \in Users |-> "read"]
    /\ UNCHANGED outsideJobs

\* one await of the user's body has returned
UserStep(u) ==
    /\ CanRun(u)
    /\ userPc' = [userPc EXCEPT ![u] = StepAfter(batchJob, @)]
    /\ UNCHANGED <<batchJob, outsideJobs>>

\* contractsSnap.empty: continue / return
UserSkipped(u) ==
    /\ CanRun(u)
    /\ userPc[u] = "read"
    /\ userPc' = [userPc EXCEPT ![u] = "processed"]
    /\ UNCHANGED <<batchJob, outsideJobs>>

\* the exception leaves the job
UserFailedRethrown(u) ==
    /\ CanRun(u)
    /\ userPc' = [userPc EXCEPT ![u] = "caught"]
    /\ batchJob' = "idle"
    /\ UNCHANGED outsideJobs

\* the store read, the commit, the model call or the send of this user
\* throws: the catch logs it
UserFailed(u) ==
    /\ CanRun(u)
    /\ userPc' = [userPc EXCEPT ![u] = "caught"]
    /\ UNCHANGED <<batchJob, outsideJobs>>

\* the loop is over / Promise.all has resolved
JobComplete ==
    /\ batchJob # "idle"
    /\ \A u \in Users : userPc[u] \in Ended
    /\ batchJob' = "idle"
    /\ UNCHANGED <<userPc, outsideJobs>>

\* ------------------------------------------------------------ callables
IdleCall ==
    [fn |-> "none", pc |-> "idle", via |-> "none", contractId |-> NoContract,
     temptationId |-> NoTemptation, outcome |-> "pending"]

\* the helper of the client that calls the function, if there is one
WrappersOf(fn) ==
    IF fn = "judgeViolation" THEN {"callAIJudge", "none"}
    ELSE IF fn = "draftContract" THEN {"callAIDrafting", "none"}
    ELSE {"none"}

\* every caller passes for authenticated
isAnyCaller(auth) == TRUE

\* if (!request.auth) throw new HttpsError('failed-precondition', ..)
isAuthenticated(auth) == auth

\* The invocation ends: the function returns its data (code "ok") or throws
\* HttpsError(code).  callAIJudge / callAIDrafting return result.data, or
\* the sentinel from their catch.
Reply(fn, via, code) ==
    /\ response' = [fn |-> fn, code |-> code]
    /\ call' = IdleCall
    /\ wrapperResult' = IF via = "none" THEN wrapperResult
                        ELSE IF code = "ok" THEN "data" ELSE "sentinel"

\* consultOracle, draftContract, auditContract, judgeViolation
InvokeAI(fn, auth, via) ==
    /\ call.pc = "idle"
    /\ via \in WrappersOf(fn)
    /\ IF ~isAuthenticated(auth)
       THEN Reply(fn, via, "failed-precondition")
       ELSE /\ call' = [IdleCall EXCEPT !.fn = fn, !.pc = "ai", !.via = via]
            /\ UNCHANGED <<response, wrapperResult>>
    /\ UNCHANGED <<aiRequests, temptations, resistedCount, outsideCalls>>

\* model.generateContent and JSON.parse, in the try block
AIAnswers(ok) ==
    /\ call.pc = "ai"
    /\ call.fn \in AICallables
    /\ aiRequests < MaxAiRequests
    /\ aiRequests' = aiRequests + 1
    /\ Reply(call.fn, call.via, IF ok THEN "ok" ELSE "internal")
    /\ UNCHANGED <<temptations, resistedCount, outsideCalls>>

\* coachTemptation: the checks before the try block
InvokeCoach(auth, contractId) ==
    /\ call.pc = "idle"
    /\ IF ~isAuthenticated(auth)
       THEN Reply("coachTemptation", "none", "failed-precondition")
       ELSE IF contractId = NoContract
       THEN Reply("coachTemptation", "none", "invalid-argument")
       ELSE /\ call' = [IdleCall EXCEPT !.fn = "coachTemptation",
                           !.pc = "get", !.contractId = contractId]
            /\ UNCHANGED <<response, wrapperResult>>
    /\ UNCHANGED <<aiRequests, temptations, resistedCount, outsideCalls>>

\* contractRef.get(); HttpsError('not-found') is thrown inside the try
\* block, and the catch throws HttpsError('internal') in its place
CoachGet ==
    /\ call.fn = "coachTemptation"
    /\ call.pc = "get"
    /\ IF contracts[call.contractId].exists
       THEN /\ call' = [call EXCEPT !.pc = "ai"]
            /\ UNCHANGED <<response, wrapperResult>>
       ELSE Reply("coachTemptation", "none", "internal")
    /\ UNCHANGED <<aiRequests, temptations, resistedCount, outsideCalls>>

\* the recent temptations query and model.generateContent
CoachAI(ok) ==
    /\ call.fn = "coachTemptation"
    /\ call.pc = "ai"
    /\ aiRequests < MaxAiRequests
    /\ aiRequests' = aiRequests + 1
    /\ IF ok
       THEN /\ call' = [call EXCEPT !.pc = "set"]
            /\ UNCHANGED <<response, wrapperResult>>
       ELSE Reply("coachTemptation", "none", "internal")
    /\ UNCHANGED <<temptations, resistedCount, outsideCalls>>

\* temptationRef.set({.., outcome: 'pending'}) under a fresh id
CoachSet ==
    /\ call.fn = "coachTemptation"
    /\ call.pc = "set"
    /\ \E t \in TemptationIds :
           /\ temptations[t] = "none"
           /\ \A u \in TemptationIds : u < t => temptations[u] # "none"
           /\ temptations' = [temptations EXCEPT ![t] = "pending"]
    /\ call' = [call EXCEPT !.pc = "update"]
    /\ UNCHANGED <<response, wrapperResult, aiRequests, resistedCount,
                   outsideCalls>>

\* contractRef.update({lastTemptation}), then the return
CoachUpdate ==
    /\ call.fn = "coachTemptation"
    /\ call.pc = "update"
    /\ Reply("coachTemptation", "none",
             IF contracts[call.contractId].exists THEN "ok" ELSE "internal")
    /\ UNCHANGED <<aiRequests, temptations, resistedCount, outsideCalls>>

\* markTemptationOutcome: the checks before the try block
InvokeMark(auth, contractId, temptationId, outcome) ==
    /\ call.pc = "idle"
    /\ outcome = "resisted" => resistedCount < MaxResisted
    /\ IF ~isAuthenticated(auth)
       THEN Reply("markTemptationOutcome", "none", "failed-precondition")
       ELSE IF \/ contractId = NoContract
               \/ temptationId = NoTemptation
               \/ outcome \notin Outcomes
       THEN Reply("markTemptationOutcome", "none", "invalid-argument")
       ELSE /\ call' = [IdleCall EXCEPT !.fn = "markTemptationOutcome",
                           !.pc = "mark", !.contractId = contractId,
                           !.temptationId = temptationId,
                           !.outcome = outcome]
            /\ UNCHANGED <<response, wrapperResult>>
    /\ UNCHANGED <<aiRequests, temptations, resistedCount, outsideCalls>>

\* temptationRef.update({outcome, resolvedAt}): the record has to exist
MarkUpdate ==
    /\ call.pc = "mark"
    /\ IF temptations[call.temptationId] # "none"
       THEN /\ temptations' = [temptations EXCEPT
                                   ![call.temptationId] = call.outcome]
            /\ IF call.outcome = "resisted"
               THEN /\ call' = [call EXCEPT !.pc = "count"]
                    /\ UNCHANGED <<response, wrapperResult>>
               ELSE Reply("markTemptationOutcome", "none", "ok")
       ELSE /\ Reply("markTemptationOutcome", "none", "internal")
            /\ UNCHANGED temptations
    /\ UNCHANGED <<aiRequests, resistedCount, outsideCalls>>

\* contractRef.update({resistedCount: increment(1)}), then the return
MarkCount ==
    /\ call.pc = "count"
    /\ IF contracts[call.contractId].exists
       THEN /\ resistedCount' = resistedCount + 1
            /\ Reply("markTemptationOutcome", "none", "ok")
       ELSE /\ Reply("markTemptationOutcome", "none", "internal")
            /\ UNCHANGED resistedCount
    /\ UNCHANGED <<aiRequests, temptations, outsideCalls>>

\* a store call of coachTemptation or markTemptationOutcome throws: the
\* catch throws HttpsError('internal')
StoreCallFailed ==
    /\ call.pc \in {"get", "set", "update", "mark", "count"}
    /\ Reply(call.fn, "none", "internal")
    /\ UNCHANGED <<aiRequests, temptations, resistedCount, outsideCalls>>

\* ------------------------------------------------- journal: AI replies
NoEntry == [type |-> "none", replies |-> 0]

\* what addDoc (JournalModal.handleAddLog) and dailyAutoKeep's batch.set
\* write: text, createdAt, type
CreatedEntry(type) == [type |-> type, replies |-> 0]

\* event.data of onDocumentCreated: the document as it was created, the
\* same in every delivery of the event
EventData(e) == CreatedEntry(entryDocs[e].type)

\* A journal entry is added (type 'manual' by the client, 'auto' by
\* dailyAutoKeep); its creation event is delivered at least once.
AddJournalEntry(type, deliveries) ==
    /\ \E e \in EntryIds :
           /\ entryDocs[e] = NoEntry
           /\ \A f \in EntryIds : f < e => entryDocs[f] # NoEntry
           /\ entryDocs' = [entryDocs EXCEPT ![e] = CreatedEntry(type)]
           /\ events' = [events EXCEPT ![e] = deliveries]
    /\ UNCHANGED <<replying, outsideReply>>

\* onJournalEntryCreated up to the try block: the checks on event.data
OnJournalEntryCreated(e) ==
    /\ events[e] > 0
    /\ events' = [events EXCEPT ![e] = @ - 1]
    /\ replying' = IF EventData(e).type # "manual" \/ EventData(e).replies > 0
                   THEN replying
                   ELSE [replying EXCEPT ![e] = @ + 1]
    /\ UNCHANGED <<entryDocs, outsideReply>>

\* the contract read, the entries query, model.generateContent and
\* snapshot.ref.update({aiReply})
ReplyWritten(e) ==
    /\ replying[e] > 0
    /\ replying' = [replying EXCEPT ![e] = @ - 1]
    /\ entryDocs' = IF \E c \in ContractIds : contracts[c].exists
                    THEN [entryDocs EXCEPT ![e].replies = @ + 1]
                    ELSE entryDocs
    /\ UNCHANGED <<events, outsideReply>>

\* a read, the model or the update throws: the catch logs it
ReplyFailed(e) ==
    /\ replying[e] > 0
    /\ replying' = [replying EXCEPT ![e] = @ - 1]
    /\ UNCHANGED <<entryDocs, events, outsideReply>>

\* -------------------------------------------------- the contract slots
\* The contracts collection as the Dashboard counts it: a bag of documents,
\* of each its status and streak.
SlotOf(doc) == [status |-> doc.status, streak |-> doc.streak]

\* contracts.filter(c => c.status === 'active').length
ActiveCount(docs) == CopiesIn([status |-> "active", streak |-> 0], docs)

\* onSnapshot of the contracts query reaches the page
SessionSnapshot(s) ==
    /\ slotsUsed' = [slotsUsed EXCEPT ![s] = ActiveCount(contractDocs)]
    /\ UNCHANGED <<contractDocs, sessionView, outsideQuota>>

\* Dashboard: NEW is rendered unless isFull
SessionOpenCreate(s) ==
    /\ sessionView[s] = "dashboard"
    /\ ~(slotsUsed[s] >= MAX_ACTIVE_CONTRACTS)
    /\ sessionView' = [sessionView EXCEPT ![s] = "create"]
    /\ UNCHANGED <<contractDocs, slotsUsed, outsideQuota>>

\* CreateContract onCancel
SessionCancelCreate(s) ==
    /\ sessionView[s] = "create"
    /\ sessionView' = [sessionView EXCEPT ![s] = "dashboard"]
    /\ UNCHANGED <<contractDocs, slotsUsed, outsideQuota>>

\* handleCreateContract: addDoc, then setView('dashboard')
SessionCreate(s, data) ==
    /\ sessionView[s] = "create"
    /\ BagCardinality(contractDocs) < MaxContracts
    /\ contractDocs' = AddDoc(contractDocs, SlotOf(NewContract(data, today)))
    /\ sessionView' = [sessionView EXCEPT ![s] = "dashboard"]
    /\ UNCHANGED <<slotsUsed, outsideQuota>>

\* handleViolation with decision 'pause' or 'retire' on a contract of the
\* page's snapshot: the status leaves 'active'
SessionViolation(s, decision) ==
    /\ sessionView[s] = "dashboard"
    /\ slotsUsed[s] > 0
    /\ ActiveCount(contractDocs) > 0
    /\ contractDocs' =
           AddDoc(contractDocs (-) SetToBag({[status |-> "active", streak |-> 0]}),
                  [status |-> IF decision = "pause" THEN "paused"
                              ELSE "archived",
                   streak |-> 0])
    /\ UNCHANGED <<slotsUsed, sessionView, outsideQuota>>

\* ------------------------------------------------------------ migration
\* migrateUserData (the callable, and the script of the same body): the
\* source user has n contracts, each with one journal entry, m logs and a
\* user document.
MigDoc(kind, id) == [kind |-> kind, id |-> id]

IdleMigration == [pc |-> "idle", index |-> 0, contracts |-> 0, logs |-> 0]

\* const results = {contracts: 0, logs: 0, journals: 0, errors: []}
NoResults == [contracts |-> 0, logs |-> 0, journals |-> 0, errors |-> {}]

\* the documents under users/{sourceUid} that the call found or would find
SourceDocs ==
    { MigDoc("contract", i) : i \in 1..migration.contracts }
        \cup { MigDoc("journal", i) : i \in 1..migration.contracts }
        \cup { MigDoc("log", i) : i \in 1..migration.logs }

\* results.errors.push(`Contract ${id}: ...`), `Journal ...`, `Log ...`
PushError(kind, id) ==
    [results EXCEPT !.errors = @ \cup {MigDoc(kind, id)}]

\* the request checks, then `const results = ...`
MigrateUserData(auth, uids, n, m) ==
    /\ migration.pc = "idle"
    /\ migrateResponse = "none"
    /\ IF ~isAuthenticated(auth)
       THEN /\ migrateResponse' = "failed-precondition"
            /\ UNCHANGED <<migration, results>>
       ELSE IF ~uids
       THEN /\ migrateResponse' = "invalid-argument"
            /\ UNCHANGED <<migration, results>>
       ELSE /\ migration' = [pc |-> "contractsGet", index |-> 0,
                             contracts |-> n, logs |-> m]
            /\ results' = NoResults
            /\ UNCHANGED migrateResponse
    /\ UNCHANGED <<targetDocs, outsideMigrate>>

\* the outer catch: throw new HttpsError('internal', ...)
MigrationThrows ==
    /\ migration' = [migration EXCEPT !.pc = "failed"]
    /\ migrateResponse' = "internal"
    /\ UNCHANGED <<targetDocs, results>>

\* the loop over contractsSnap.docs goes on, or the logs query is next
NextContract ==
    IF migration.index < migration.contracts
    THEN [migration EXCEPT !.pc = "contract", !.index = @ + 1]
    ELSE [migration EXCEPT !.pc = "logsGet", !.index = 0]

\* the loop over logsSnap.docs goes on, or the user document is next
NextLog ==
    IF migration.index < migration.logs
    THEN [migration EXCEPT !.pc = "log", !.index = @ + 1]
    ELSE [migration EXCEPT !.pc = "userDoc", !.index = 0]

\* the contracts query of the source user
MigrateContractsGet(ok) ==
    /\ migration.pc = "contractsGet"
    /\ IF ok
       THEN /\ migration' = NextContract
            /\ UNCHANGED <<targetDocs, results, migrateResponse>>
       ELSE MigrationThrows
    /\ UNCHANGED outsideMigrate

\* newContractRef.set, results.contracts++; a failure goes to the catch of
\* the contract
MigrateContract(ok) ==
    /\ migration.pc = "contract"
    /\ IF ok
       THEN /\ targetDocs' = targetDocs \cup {MigDoc("contract", migration.index)}
            /\ results' = [results EXCEPT !.contracts = @ + 1]
            /\ migration' = [migration EXCEPT !.pc = "journalGet"]
       ELSE /\ results' = PushError("contract", migration.index)
            /\ migration' = NextContract
            /\ UNCHANGED targetDocs
    /\ UNCHANGED <<migrateResponse, outsideMigrate>>

\* the journal query of the contract, inside the try of the contract
MigrateJournalGet(ok) ==
    /\ migration.pc = "journalGet"
    /\ IF ok
       THEN /\ migration' = [migration EXCEPT !.pc = "journal"]
            /\ UNCHANGED results
       ELSE /\ results' = PushError("contract", migration.index)
            /\ migration' = NextContract
    /\ UNCHANGED <<targetDocs, migrateResponse, outsideMigrate>>

\* the set of the journal entry, results.journals++, with its own catch
MigrateJournal(ok) ==
    /\ migration.pc = "journal"
    /\ IF ok
       THEN /\ targetDocs' = targetDocs \cup {MigDoc("journal", migration.index)}
            /\ results' = [results EXCEPT !.journals = @ + 1]
       ELSE /\ results' = PushError("journal", migration.index)
            /\ UNCHANGED targetDocs
    /\ migration' = NextContract
    /\ UNCHANGED <<migrateResponse, outsideMigrate>>

\* the logs query of the source user
MigrateLogsGet(ok) ==
    /\ migration.pc = "logsGet"
    /\ IF ok
       THEN /\ migration' = NextLog
            /\ UNCHANGED <<targetDocs, results, migrateResponse>>
       ELSE MigrationThrows
    /\ UNCHANGED outsideMigrate

\* the set of the log, results.logs++, with its own catch
MigrateLog(ok) ==
    /\ migration.pc = "log"
    /\ IF ok
       THEN /\ targetDocs' = targetDocs \cup {MigDoc("log", migration.index)}
            /\ results' = [results EXCEPT !.logs = @ + 1]
       ELSE /\ results' = PushError("log", migration.index)
            /\ UNCHANGED targetDocs
    /\ migration' = NextLog
    /\ UNCHANGED <<migrateResponse, outsideMigrate>>

\* the get of the source user document and the set, merged, of the target
\* one, in the outer try only; then `return results`
MigrateUserDoc(ok) ==
    /\ migration.pc = "userDoc"
    /\ IF ok
       THEN /\ targetDocs' = targetDocs \cup {MigDoc("user", 0)}
            /\ migration' = [migration EXCEPT !.pc = "returned"]
            /\ migrateResponse' = "results"
            /\ UNCHANGED results
       ELSE MigrationThrows
    /\ UNCHANGED outsideMigrate

\* ---------------------------------------------------- the create wizard
\* CreateContract.  Of formData the model keeps what the wizard tests:
\* whether title and pillar are non-empty strings, the length of behavior
\* and the length of exceptions.
FormData(title, pillar, behavior, exceptions) ==
    [title |-> title, pillar |-> pillar, behavior |-> behavior,
     exceptions |-> exceptions]

\* useState({title: '', pillar: '', behavior: '', exceptions: [], ...})
EmptyForm == FormData(FALSE, FALSE, 0, 0)

ClosedWizard ==
    [open |-> FALSE, step |-> 1, showAiInput |-> FALSE, isAiLoading |-> FALSE,
     isSigned |-> FALSE]

\* the lengths of behavior the model types or drafts: none, one short of
\* the length the Review button asks for, and that length
BehaviorLengths == {0, 5, 6}

\* what the drafting call can hand back: null, or an object of which each
\* field may be missing or empty and `exceptions` may be no array; the
\* object of the helper's catch has a title and a behavior only
AiResults ==
    [isNull : {TRUE}, title : {FALSE}, pillar : {FALSE}, behavior : {0},
     isArray : {FALSE}, exceptions : {0}]
        \cup [isNull : {FALSE}, title : BOOLEAN, pillar : BOOLEAN,
              behavior : BehaviorLengths, isArray : {FALSE}, exceptions : {0}]
        \cup [isNull : {FALSE}, title : BOOLEAN, pillar : BOOLEAN,
              behavior : BehaviorLengths, isArray : {TRUE},
              exceptions : {0, MAX_EXCEPTIONS, MaxAiExceptions}]

\* const isValidStep1 = formData.title && formData.pillar
isValidStep1 == formData.title /\ formData.pillar

\* const isValidStep2 = formData.behavior.length > 5
isValidStep2 == formData.behavior > 5

\* Array.isArray(result.exceptions) ? result.exceptions.map(String) : []
DraftedExceptions(result) ==
    IF result.isArray THEN result.exceptions ELSE 0

\* the mount of CreateContract: the state of useState, then the effect that
\* restores the draft of localStorage when it has a title or a behavior
\* (the step stays 1).  The model follows the wizard up to its first
\* submission.
OpenWizard ==
    /\ ~wizard.open
    /\ submitted = {}
    /\ wizard' = [ClosedWizard EXCEPT !.open = TRUE]
    /\ formData' =
           IF \E d \in savedDraft : d.title \/ d.behavior > 0
           THEN CHOOSE d \in savedDraft : TRUE
           ELSE EmptyForm
    /\ UNCHANGED <<savedDraft, submitted, outsideWizard>>

\* onCancel: setView('dashboard') unmounts the wizard
CancelWizard ==
    /\ wizard.open
    /\ wizard' = ClosedWizard
    /\ formData' = EmptyForm
    /\ UNCHANGED <<savedDraft, submitted, outsideWizard>>

\* the debounced effect: localStorage.setItem('laosfactos_draft', formData)
AutosaveDraft ==
    /\ wizard.open
    /\ savedDraft' = {formData}
    /\ UNCHANGED <<wizard, formData, submitted, outsideWizard>>

\* step 1: the title input
UpdateTitle(nonEmpty) ==
    /\ wizard.open /\ wizard.step = 1
    /\ formData' = [formData EXCEPT !.title = nonEmpty]
    /\ UNCHANGED <<wizard, savedDraft, submitted, outsideWizard>>

\* step 1: a pillar button
UpdatePillar ==
    /\ wizard.open /\ wizard.step = 1
    /\ formData' = [formData EXCEPT !.pillar = TRUE]
    /\ UNCHANGED <<wizard, savedDraft, submitted, outsideWizard>>

\* step 1: Next Step, disabled unless isValidStep1
NextStep ==
    /\ wizard.open /\ wizard.step = 1
    /\ isValidStep1
    /\ wizard' = [wizard EXCEPT !.step = 2]
    /\ UNCHANGED <<formData, savedDraft, submitted, outsideWizard>>

\* step 1: Use AI Drafter, and the X of the prompt box
SetShowAiInput(shown) ==
    /\ wizard.open /\ wizard.step = 1
    /\ wizard.showAiInput # shown
    /\ wizard' = [wizard EXCEPT !.showAiInput = shown]
    /\ UNCHANGED <<formData, savedDraft, submitted, outsideWizard>>

\* handleAiDraft up to the await of the drafting call
HandleAiDraft ==
    /\ wizard.open /\ wizard.step = 1
    /\ wizard.showAiInput
    /\ ~wizard.isAiLoading
    /\ wizard' = [wizard EXCEPT !.isAiLoading = TRUE]
    /\ UNCHANGED <<formData, savedDraft, submitted, outsideWizard>>

\* handleAiDraft from the result on: the merge into formData,
\* setShowAiInput(false), setStep(2), setIsAiLoading(false)
AiDraftResult(result) ==
    /\ wizard.open
    /\ wizard.isAiLoading
    /\ IF result.isNull
       THEN /\ wizard' = [wizard EXCEPT !.isAiLoading = FALSE]
            /\ UNCHANGED formData
       ELSE LET form ==
                  FormData(result.title \/ formData.title,
                           result.pillar \/ formData.pillar,
                           IF result.behavior > 0 THEN result.behavior
                           ELSE formData.behavior,
                           DraftedExceptions(result))
            IN  /\ formData' = form
                /\ wizard' = [wizard EXCEPT !.isAiLoading = FALSE,
                                            !.showAiInput = FALSE,
                                            !.step = 2]
    /\ UNCHANGED <<savedDraft, submitted, outsideWizard>>

\* step 2: the behavior text area
UpdateBehavior(len) ==
    /\ wizard.open /\ wizard.step = 2
    /\ formData' = [formData EXCEPT !.behavior = len]
    /\ UNCHANGED <<wizard, savedDraft, submitted, outsideWizard>>

\* step 2: addException with a non-blank input
addException ==
    /\ wizard.open /\ wizard.step = 2
    /\ ~(formData.exceptions >= MAX_EXCEPTIONS)
    /\ formData' = [formData EXCEPT !.exceptions = @ + 1]
    /\ UNCHANGED <<wizard, savedDraft, submitted, outsideWizard>>

\* step 2: removeException(index) of an exception shown
removeException ==
    /\ wizard.open /\ wizard.step = 2
    /\ formData.exceptions > 0
    /\ formData' = [formData EXCEPT !.exceptions = @ - 1]
    /\ UNCHANGED <<wizard, savedDraft, submitted, outsideWizard>>

\* step 2: Back; step 3: Back to Edit and the link of the audit
BackStep ==
    /\ wizard.open /\ wizard.step > 1
    /\ wizard' = [wizard EXCEPT !.step = @ - 1]
    /\ UNCHANGED <<formData, savedDraft, submitted, outsideWizard>>

\* step 2: Review, disabled unless isValidStep2
ReviewStep ==
    /\ wizard.open /\ wizard.step = 2
    /\ isValidStep2
    /\ wizard' = [wizard EXCEPT !.step = 3]
    /\ UNCHANGED <<formData, savedDraft, submitted, outsideWizard>>

\* step 3: SignaturePad onSign
SetIsSigned ==
    /\ wizard.open /\ wizard.step = 3
    /\ ~wizard.isSigned
    /\ wizard' = [wizard EXCEPT !.isSigned = TRUE]
    /\ UNCHANGED <<formData, savedDraft, submitted, outsideWizard>>

\* step 3: SEAL COVENANT, disabled unless isSigned: onSubmit(formData),
\* clearDraft(), and handleCreateContract's setView('dashboard')
HandleCommit ==
    /\ wizard.open /\ wizard.step = 3
    /\ wizard.isSigned
    /\ submitted' = {formData}
    /\ savedDraft' = {}
    /\ wizard' = ClosedWizard
    /\ formData' = EmptyForm
    /\ UNCHANGED outsideWizard

\* ------------------------------------------------------- specification
LifecycleInit ==
    /\ today = 1
    /\ contracts = [c \in ContractIds |-> NoDoc]
    /\ nextId = 0
    /\ logs = EmptyBag
    /\ violations = EmptyBag
    /\ journal = EmptyBag
    /\ snapContracts = [c \in ContractIds |-> SnapOf(NoDoc)]
    /\ contractsLoading = TRUE
    /\ todayLogs = [c \in ContractIds |-> FALSE]
    /\ subDate = 1
    /\ view = "dashboard"
    /\ activeViolationContract = NoContract
    /\ pending = 0
    /\ runs = [r \in RunIds |-> IdleRun]

BriefingInit ==
    /\ dailyBriefing = [t \in TimesOfDay |-> NoDate]
    /\ briefing = [r \in BriefingCallers |-> IdleBriefing]
    /\ generated = EmptyBag
    /\ pushes = EmptyBag

JobsInit ==
    /\ batchJob = "idle"
    /\ userPc = [u \in Users |-> "read"]

CallsInit ==
    /\ call = IdleCall
    /\ response = [fn |-> "none", code |-> "none"]
    /\ wrapperResult = "none"
    /\ aiRequests = 0
    /\ temptations = [t \in TemptationIds |-> "none"]
    /\ resistedCount = 0

ReplyInit ==
    /\ entryDocs = [e \in EntryIds |-> NoEntry]
    /\ events = [e \in EntryIds |-> 0]
    /\ replying = [e \in EntryIds |-> 0]

QuotaInit ==
    /\ contractDocs = EmptyBag
    /\ slotsUsed = [s \in Sessions |-> 0]
    /\ sessionView = [s \in Sessions |-> "dashboard"]

MigrateInit ==
    /\ migration = IdleMigration
    /\ targetDocs = {}
    /\ results = NoResults
    /\ migrateResponse = "none"

WizardInit ==
    /\ wizard = ClosedWizard
    /\ formData = EmptyForm
    /\ savedDraft = {}
    /\ submitted = {}

SideInit ==
    /\ BriefingInit /\ JobsInit /\ CallsInit /\ ReplyInit /\ QuotaInit
    /\ MigrateInit /\ WizardInit

Init == LifecycleInit /\ SideInit

Next ==
    \/ ContractsSnapshot
    \/ LogsSnapshot
    \/ Reload
    \/ \E v \in HeaderViews : SetView(v)
    \/ OpenCreate
    \/ \E data \in ContractData(today) : HandleCreateContract(data)
    \/ \E c \in ContractIds, st \in CheckInStatuses : HandleCheckIn(c, st)
    \/ \E c \in ContractIds : HandleCheckInFailed(c)
    \/ \E c \in ContractIds : OpenViolation(c)
    \/ CancelViolation
    \/ \E data \in ViolationData : HandleViolation(data)
    \/ HandleViolationFailed
    \/ ViolationCommitted
    \/ \E c \in ContractIds : HandleCompleteContract(c)
    \/ \E c \in ContractIds : HandleCompleteContractFailed(c)
    \/ \E c \in ContractIds : HandleDeleteContract(c)
    \/ Tick
    \/ \E r \in CronRuns : WeeklyRead(r)
    \/ \E r \in CronRuns : WeeklyCommit(r)
    \/ \E r \in CronRuns : DailyReadContracts(r)
    \/ \E r \in CronRuns : DailyReadLogs(r)
    \/ \E r \in CronRuns : DailyCommit(r)
    \/ \E r \in CronRuns : JobFailed(r)

Spec == Init /\ [][Next]_vars

\* The briefings of one user who has no contract, or one active contract
\* made on day 1.
OneActiveContract ==
    /\ today = 1
    /\ \E data \in ContractData(1) :
           contracts = [c \in ContractIds |-> NewContract(data, 1)]
    /\ nextId = 1
    /\ logs = EmptyBag
    /\ violations = EmptyBag
    /\ journal = EmptyBag
    /\ snapContracts = [c \in ContractIds |-> SnapOf(NoDoc)]
    /\ contractsLoading = TRUE
    /\ todayLogs = [c \in ContractIds |-> FALSE]
    /\ subDate = 1
    /\ view = "dashboard"
    /\ activeViolationContract = NoContract
    /\ pending = 0
    /\ runs = [r \in RunIds |-> IdleRun]

InitUser == (LifecycleInit \/ OneActiveContract) /\ SideInit

NextBriefing ==
    \/ \E r \in BriefingCallers, t \in TimesOfDay : ProcessUserBriefing(r, t)
    \/ \E r \in BriefingCallers : BriefingContracts(r)
    \/ \E r \in BriefingCallers : BriefingGenerate(r)
    \/ \E r \in BriefingCallers : BriefingStore(r)
    \/ \E r \in BriefingCallers : BriefingSend(r)
    \/ \E r \in BriefingCallers : BriefingFailed(r)
    \/ BriefingMidnight

SpecBriefing == InitUser /\ [][NextBriefing]_vars

\* A scheduled job and the users of its query.
NextJobs ==
    \/ \E job \in ScheduledJobs : StartJob(job)
    \/ \E u \in Users : UserStep(u)
    \/ \E u \in Users : UserSkipped(u)
    \/ \E u \in Users : UserFailed(u)
    \/ JobComplete

SpecJobs == Init /\ [][NextJobs]_vars

\* The callable functions, called one at a time by any caller.
NextCalls ==
    \/ \E fn \in AICallables, auth \in BOOLEAN, via \in Wrappers :
           InvokeAI(fn, auth, via)
    \/ \E ok \in BOOLEAN : AIAnswers(ok)
    \/ \E auth \in BOOLEAN, c \in ContractIds \cup {NoContract} :
           InvokeCoach(auth, c)
    \/ CoachGet
    \/ \E ok \in BOOLEAN : CoachAI(ok)
    \/ CoachSet
    \/ CoachUpdate
    \/ \E auth \in BOOLEAN, c \in ContractIds \cup {NoContract},
          t \in TemptationIds \cup {NoTemptation}, o \in OutcomeArgs :
           InvokeMark(auth, c, t, o)
    \/ MarkUpdate
    \/ MarkCount
    \/ StoreCallFailed

SpecCalls == InitUser /\ [][NextCalls]_vars

\* The journal of a contract and the trigger on its entries.
NextReply ==
    \/ \E type \in EntryTypes, n \in 1..MaxDeliveries :
           AddJournalEntry(type, n)
    \/ \E e \in EntryIds : OnJournalEntryCreated(e)
    \/ \E e \in EntryIds : ReplyWritten(e)
    \/ \E e \in EntryIds : ReplyFailed(e)

SpecReply == InitUser /\ [][NextReply]_vars

\* The contracts collection and the pages that create contracts.
NextQuota ==
    \/ \E s \in Sessions : SessionSnapshot(s)
    \/ \E s \in Sessions : SessionOpenCreate(s)
    \/ \E s \in Sessions : SessionCancelCreate(s)
    \/ \E s \in Sessions, data \in ContractData(today) :
           SessionCreate(s, data)
    \/ \E s \in Sessions, decision \in {"pause", "retire"} :
           SessionViolation(s, decision)

SpecQuota == Init /\ [][NextQuota]_vars

\* One call of migrateUserData, each read and write of which succeeds or
\* fails.
NextMigrate ==
    \/ \E auth \in BOOLEAN, uids \in BOOLEAN,
          n \in 1..MaxSourceContracts, m \in 0..MaxSourceLogs :
            MigrateUserData(auth, uids, n, m)
    \/ \E ok \in BOOLEAN : MigrateContractsGet(ok)
    \/ \E ok \in BOOLEAN : MigrateContract(ok)
    \/ \E ok \in BOOLEAN : MigrateJournalGet(ok)
    \/ \E ok \in BOOLEAN : MigrateJournal(ok)
    \/ \E ok \in BOOLEAN : MigrateLogsGet(ok)
    \/ \E ok \in BOOLEAN : MigrateLog(ok)
    \/ \E ok \in BOOLEAN : MigrateUserDoc(ok)

SpecMigrate == Init /\ [][NextMigrate]_vars

\* The create wizard of one page, from its mount to its first submission.
NextWizard ==
    \/ OpenWizard
    \/ CancelWizard
    \/ AutosaveDraft
    \/ \E nonEmpty \in BOOLEAN : UpdateTitle(nonEmpty)
    \/ UpdatePillar
    \/ NextStep
    \/ \E shown \in BOOLEAN : SetShowAiInput(shown)
    \/ HandleAiDraft
    \/ \E result \in AiResults : AiDraftResult(result)
    \/ \E len \in BehaviorLengths : UpdateBehavior(len)
    \/ addException
    \/ removeException
    \/ BackStep
    \/ ReviewStep
    \/ SetIsSigned
    \/ HandleCommit

SpecWizard == Init /\ [][NextWizard]_vars

\* The settlement jobs of one user with invocations that may overlap: the
\* user has one active contract, days pass, and each invocation reads and
\* commits on its own.
NextSettle ==
    \/ Tick
    \/ \E r \in RunIds : WeeklyRead(r)
    \/ \E r \in RunIds : WeeklyCommit(r)
    \/ \E r \in RunIds : DailyReadContracts(r)
    \/ \E r \in RunIds : DailyReadLogs(r)
    \/ \E r \in RunIds : DailyCommit(r)
    \/ \E r \in RunIds : JobFailed(r)

SpecSettle == InitUser /\ [][NextSettle]_vars

\* ------------------------------------------------------------ properties
BrokenLog(c, date) == NewLog(c, date, "broken", Unset)

AutoLog(c, date) == NewLog(c, date, "kept", "auto")

\* C1, as the specification states it: in every reachable state every
\* contract has status 'archived' iff its outcome is set, and outcome
\* 'breached' iff its failureReason is set.
C1_OutcomeFollowsStatus ==
    \A c \in ContractIds : contracts[c].exists =>
        /\ (contracts[c].status = "archived") <=> (contracts[c].outcome # Unset)
        /\ (contracts[c].outcome = "breached")
               <=> (contracts[c].failureReason # Unset)

\* C2: the streak of every contract is a natural number in every state,
\* and a step that commits a Violation Record for a contract leaves the
\* streak of that contract at 0, whatever the decision and the old streak.
C2_StreakNatAndReset ==
    /\ [](\A c \in ContractIds : contracts[c].streak \in Nat)
    /\ [][\A c \in ContractIds :
             CopiesIn(ViolationRecord(c), violations')
                 > CopiesIn(ViolationRecord(c), violations)
               => contracts'[c].streak = 0]_vars

\* a violation has just been committed (its continuation has not run) on
\* a contract that a 'kept' check-in had brought to streak 1
C2_Witness ==
    \E c \in ContractIds :
        /\ pending > 0
        /\ ~contracts[c].weekly
        /\ CopiesIn(ViolationRecord(c), violations) = 1
        /\ \E d \in Days : CopiesIn(NewLog(c, d, "kept", Unset), logs) = 1
        /\ contracts[c].streak = 0

\* C3: a step shows the Violation Record, the 'broken' Daily Log and the
\* contract update of a violation all together or not at all; the records
\* and the 'broken' logs of a contract are equal in number in every state.
C3_ViolationAtomic ==
    /\ [](\A c \in ContractIds :
             CopiesIn(ViolationRecord(c), violations)
                 = Copies(logs, { BrokenLog(c, d) : d \in Days }))
    /\ [][\A c \in ContractIds :
             LET record == CopiesIn(ViolationRecord(c), violations')
                               - CopiesIn(ViolationRecord(c), violations)
                 broken == CopiesIn(BrokenLog(c, today), logs')
                               - CopiesIn(BrokenLog(c, today), logs)
                 paused == /\ contracts'[c].status = "paused"
                           /\ contracts[c].status # "paused"
                 breached == /\ contracts'[c].outcome = "breached"
                             /\ contracts[c].outcome # "breached"
             IN  (record # 0 \/ broken # 0 \/ paused \/ breached) =>
                     /\ record = 1
                     /\ broken = 1
                     /\ contracts'[c].streak = 0
                     /\ contracts'[c].lastCheckIn = today]_vars

\* the three writes of a 'pause' violation are in the store
C3_Witness ==
    \E c \in ContractIds :
        /\ CopiesIn(ViolationRecord(c), violations) = 1
        /\ CopiesIn(BrokenLog(c, today), logs) = 1
        /\ contracts[c].status = "paused"
        /\ contracts[c].streak = 0
        /\ contracts[c].lastCheckIn = today

\* C4, as the specification states it: no check-in commits for a contract
\* that already has a Daily Log for today.
C4_CheckInRejectedWhenLogged ==
    [][\A c \in ContractIds : NumLogs(logs, c, today) > 0 =>
           \A st \in CheckInStatuses : ~HandleCheckIn(c, st)]_vars

\* C5, as the specification states it: a committed check-in adds exactly
\* one Daily Log (today, status), sets the last check-in to today and
\* changes the stored streak by +1 for 'kept' and by 0 otherwise.
C5_CheckInCreditsStoredStreak ==
    [][\A c \in ContractIds, st \in CheckInStatuses :
           HandleCheckIn(c, st) =>
               /\ logs' = AddDoc(logs, NewLog(c, today, st, Unset))
               /\ contracts'[c].lastCheckIn = today
               /\ contracts'[c].streak =
                      contracts[c].streak + (IF st = "kept" THEN 1 ELSE 0)]_vars

\* C6: a committed report-violation on a contract that is active in the
\* store adds exactly one Violation Record and exactly one 'broken' Daily
\* Log for today, and sets the status by decision: 'recommit' leaves it
\* active, 'pause' makes it paused, 'retire' makes it archived with outcome
\* 'breached' and failureReason the story, or the reason code when the
\* story is empty.
C6_ViolationOnActive ==
    [][\A data \in ViolationData :
           (/\ HandleViolation(data)
            /\ contracts[activeViolationContract].status = "active") =>
               LET c == activeViolationContract
                   old == contracts[c]
                   new == contracts'[c]
               IN  /\ violations' = AddDoc(violations, ViolationRecord(c))
                   /\ logs' = AddDoc(logs, BrokenLog(c, today))
                   /\ data.decision = "recommit" =>
                          /\ new.status = "active"
                          /\ new.outcome = old.outcome
                          /\ new.failureReason = old.failureReason
                   /\ data.decision = "pause" =>
                          /\ new.status = "paused"
                          /\ new.outcome = old.outcome
                          /\ new.failureReason = old.failureReason
                   /\ data.decision = "retire" =>
                          /\ new.status = "archived"
                          /\ new.outcome = "breached"
                          /\ data.story # "" => new.failureReason = data.story
                          /\ data.story = "" => new.failureReason = data.reason]_vars

\* a contract retired by one violation whose story was left empty
C6_Witness ==
    \E c \in ContractIds :
        /\ CopiesIn(ViolationRecord(c), violations) = 1
        /\ CopiesIn(BrokenLog(c, today), logs) = 1
        /\ contracts[c].status = "archived"
        /\ contracts[c].outcome = "breached"
        /\ contracts[c].failureReason \in VIOLATION_REASONS

\* C7: Complete commits only for a contract whose endDate is set and
\* before today, and then sets status 'archived' and outcome 'completed';
\* no other step makes an outcome 'completed'.
C7_CompleteOnlyAfterEndDate ==
    [][\A c \in ContractIds :
           LET passed == /\ contracts[c].endDate # NoDate
                         /\ today > contracts[c].endDate
           IN  /\ HandleCompleteContract(c) =>
                      /\ passed
                      /\ contracts'[c].status = "archived"
                      /\ contracts'[c].outcome = "completed"
               /\ (/\ contracts'[c].outcome = "completed"
                   /\ contracts[c].outcome # "completed") =>
                      passed /\ HandleCompleteContract(c)]_vars

\* a contract completed after its end date
C7_Witness ==
    \E c \in ContractIds :
        /\ contracts[c].status = "archived"
        /\ contracts[c].outcome = "completed"
        /\ contracts[c].endDate # NoDate
        /\ contracts[c].endDate < today

\* C8: the commit of a Daily Auto-Keep run leaves a contract that has a
\* Daily Log for the evaluated day with the same logs, document and
\* journal; no (contract, day) ever has two auto logs.
C8_AutoKeepOncePerDay ==
    /\ [](\A c \in ContractIds, d \in Days : CopiesIn(AutoLog(c, d), logs) <= 1)
    /\ [][\A r \in RunIds : DailyCommit(r) =>
             \A c \in ContractIds : NumLogs(logs, c, runs[r].day) > 0 =>
                 /\ \A d \in Days : NumLogs(logs', c, d) = NumLogs(logs, c, d)
                 /\ contracts'[c] = contracts[c]
                 /\ CopiesIn(JournalEntry(c, "auto"), journal')
                        = CopiesIn(JournalEntry(c, "auto"), journal)]_vars

\* a second run for the same day has found the log the first run wrote
C8_Witness ==
    \E r \in RunIds, c \in ContractIds :
        /\ runs[r].job = "daily"
        /\ runs[r].pc = "commit"
        /\ InResult(r, c)
        /\ c \in runs[r].logged
        /\ CopiesIn(AutoLog(c, runs[r].day), logs) = 1
        /\ NumLogs(logs, c, runs[r].day) = 1

\* C9: the commit of a Daily Auto-Keep run leaves every contract of its
\* query (active, AVOID, autoKeep) that has no Daily Log for yesterday with
\* exactly one log for yesterday, ('kept', 'auto'), with the streak the
\* run read plus 1 and with one more 'auto' Journal Entry; a contract with
\* a log for yesterday keeps its streak, logs and journal.
C9_AutoKeepCredit ==
    [][\A r \in RunIds : DailyCommit(r) =>
           \A c \in ContractIds :
               LET yesterday == today - 1
                   entries(j) == CopiesIn(JournalEntry(c, "auto"), j)
               IN  /\ (InResult(r, c) /\ NumLogs(logs, c, yesterday) = 0) =>
                          /\ NumLogs(logs', c, yesterday) = 1
                          /\ CopiesIn(AutoLog(c, yesterday), logs') = 1
                          /\ contracts'[c].streak = runs[r].docs[c].streak + 1
                          /\ entries(journal') = entries(journal) + 1
                   /\ NumLogs(logs, c, yesterday) > 0 =>
                          /\ contracts'[c].streak = contracts[c].streak
                          /\ \A d \in Days :
                                 NumLogs(logs', c, d) = NumLogs(logs, c, d)
                          /\ entries(journal') = entries(journal)]_vars

\* an auto-keep contract credited once for yesterday
C9_Witness ==
    \E c \in ContractIds :
        /\ contracts[c].autoKeep
        /\ contracts[c].status = "active"
        /\ NumLogs(logs, c, today - 1) = 1
        /\ CopiesIn(AutoLog(c, today - 1), logs) = 1
        /\ CopiesIn(JournalEntry(c, "auto"), journal) = 1
        /\ contracts[c].streak = 1

LogDates == 0..MaxDay

\* C12, as the specification states it: a contract is created 'active',
\* and the only changes of status are active to paused and active to
\* archived.
C12_StatusTransitions ==
    [][\A c \in ContractIds :
           /\ (~contracts[c].exists /\ contracts'[c].exists) =>
                  contracts'[c].status = "active"
           /\ (contracts[c].exists /\ contracts'[c].exists) =>
                  \/ contracts'[c].status = contracts[c].status
                  \/ /\ contracts[c].status = "active"
                     /\ contracts'[c].status \in {"paused", "archived"}]_vars

\* C13, as the specification states it: a contract has at most one Daily
\* Log for a date in every reachable state.
C13_OneLogPerContractAndDate ==
    \A c \in ContractIds, d \in LogDates : NumLogs(logs, c, d) <= 1

\* C18: a step shows the writes of a check-in batch or of a settlement
\* batch together or not at all: an auto log comes with its 'auto' Journal
\* Entry and its streak, a manual log with the refreshed last check-in, a
\* new week with the whole of weeklyProgress; the auto logs and the 'auto'
\* entries of a contract are equal in number in every state.
C18_BatchesAllOrNothing ==
    /\ [](\A c \in ContractIds :
             Copies(logs, { AutoLog(c, d) : d \in LogDates })
                 = CopiesIn(JournalEntry(c, "auto"), journal))
    /\ [][storeVars' # storeVars => \A c \in ContractIds :
             LET old == contracts[c]
                 new == contracts'[c]
                 autoLog == \E d \in LogDates :
                     CopiesIn(AutoLog(c, d), logs') # CopiesIn(AutoLog(c, d), logs)
                 entry == CopiesIn(JournalEntry(c, "auto"), journal')
                              # CopiesIn(JournalEntry(c, "auto"), journal)
                 manualLog == \E st \in CheckInStatuses :
                     CopiesIn(NewLog(c, today, st, Unset), logs')
                         # CopiesIn(NewLog(c, today, st, Unset), logs)
                 newWeek == /\ old.exists /\ new.exists
                            /\ \/ new.weekStart # old.weekStart
                               \/ new.completedCount # old.completedCount
                               \/ new.lastCheckInDate # old.lastCheckInDate
             IN  /\ autoLog <=> entry
                 /\ autoLog => new.lastCheckIn = today /\ new.streak >= 1
                 /\ manualLog => new.lastCheckIn = today
                 /\ newWeek => /\ new.weekStart = today
                               /\ new.completedCount = 0
                               /\ new.lastCheckInDate = NoDate]_vars

\* a contract credited by auto-keep for yesterday and checked in today
C18_Witness ==
    \E c \in ContractIds :
        /\ CopiesIn(AutoLog(c, today - 1), logs) = 1
        /\ CopiesIn(JournalEntry(c, "auto"), journal) = 1
        /\ CopiesIn(NewLog(c, today, "kept", Unset), logs) = 1
        /\ contracts[c].lastCheckIn = today

C11_OneBriefingPerSlotAndDay ==
    \A t \in TimesOfDay, d \in Days : CopiesIn(BriefingOf(t, d), pushes) <= 1

\* C17: in weeklyRollover, dailyAutoKeep and the briefing batch a failure
\* with one user (store read, commit, model call, push send) is caught: the
\* job goes on, the other users are where they were, and the job ends only
\* when every user of its query has been processed or has failed.
C17_FailureDoesNotStopJob ==
    [][/\ \A u \in Users :
              (userPc[u] \notin Ended /\ userPc'[u] = "caught") =>
                  /\ batchJob' = batchJob
                  /\ \A v \in Users \ {u} : userPc'[v] = userPc[v]
       /\ (batchJob # "idle" /\ batchJob' = "idle") =>
              \A u \in Users : userPc[u] \in Ended]_vars

\* a job that is over, where a user was processed after the failure of the
\* user before
C17_Witness ==
    /\ batchJob = "idle"
    /\ \E u, v \in Users :
           u < v /\ userPc[u] = "caught" /\ userPc[v] = "processed"

\* C16, as the specification states it: a Temptation Record comes into
\* being with outcome 'pending', and once its outcome is 'resisted' or
\* 'relapsed' no step changes it.
C16_OutcomeSetOnce ==
    [][\A t \in TemptationIds :
           /\ (temptations[t] = "none" /\ temptations'[t] # "none") =>
                  temptations'[t] = "pending"
           /\ temptations[t] \in Outcomes =>
                  temptations'[t] = temptations[t]]_vars

\* C20: a call of consultOracle, draftContract, auditContract,
\* judgeViolation or coachTemptation without an authenticated caller ends
\* with 'failed-precondition', no model request made and nothing written;
\* a failure of the model ends the call with the typed error 'internal',
\* which callAIJudge and callAIDrafting turn into their sentinel value; no
\* call ends with anything but its data or a typed error.
C20_AuthBeforeAIAndTypedFailure ==
    [][/\ \A fn \in AICallables, via \in Wrappers :
              InvokeAI(fn, FALSE, via) =>
                  /\ response' = [fn |-> fn, code |-> "failed-precondition"]
                  /\ call' = IdleCall
                  /\ UNCHANGED <<aiRequests, temptations, resistedCount,
                                 storeVars>>
       /\ \A c \in ContractIds \cup {NoContract} :
              InvokeCoach(FALSE, c) =>
                  /\ response' = [fn |-> "coachTemptation",
                                  code |-> "failed-precondition"]
                  /\ call' = IdleCall
                  /\ UNCHANGED <<aiRequests, temptations, resistedCount,
                                 storeVars>>
       /\ (AIAnswers(FALSE) \/ CoachAI(FALSE)) =>
              /\ response' = [fn |-> call.fn, code |-> "internal"]
              /\ call.via # "none" => wrapperResult' = "sentinel"
              /\ UNCHANGED <<temptations, resistedCount, storeVars>>
       /\ response'.code \in {"none", "ok", "failed-precondition",
                              "invalid-argument", "internal"}]_vars

\* an unauthenticated coachTemptation call has been turned away, after a
\* model failure reached the client as the sentinel of its helper
C20_Witness ==
    /\ response = [fn |-> "coachTemptation", code |-> "failed-precondition"]
    /\ wrapperResult = "sentinel"
    /\ aiRequests > 0
    /\ \A t \in TemptationIds : temptations[t] = "none"

\* C15, as the specification states it: in every reachable state the AI
\* reply of a manual Journal Entry has been written at most once, however
\* often its creation event was delivered, and no reply has been written
\* to an auto-generated entry.
C15_ReplyWrittenOnce ==
    \A e \in EntryIds :
        /\ entryDocs[e].type = "auto" => entryDocs[e].replies = 0
        /\ entryDocs[e].replies <= 1

\* C14, as the specification states it: in every reachable state the user
\* has at most MAX_ACTIVE_CONTRACTS (10) contracts with status 'active'.
C14_AtMostTenActive == ActiveCount(contractDocs) <= MAX_ACTIVE_CONTRACTS

\* C21, as the specification states it: when coachTemptation finds no
\* contract under the contractId of the request, the call ends with the
\* error 'not-found', and no Temptation Record is written and the contract
\* collection is left as it is.
C21_MissingContractIsNotFound ==
    [][(CoachGet /\ ~contracts[call.contractId].exists) =>
           /\ response' = [fn |-> "coachTemptation", code |-> "not-found"]
           /\ UNCHANGED <<temptations, resistedCount, storeVars>>]_vars

\* C30, as the specification states it: in every reachable state the
\* contract's resistedCount is the number of its Temptation Records whose
\* outcome is 'resisted'.
C30_ResistedCountMatchesRecords ==
    resistedCount
        = Cardinality({ t \in TemptationIds : temptations[t] = "resisted" })

\* a call of processUserBriefing is under way for the slot
BriefingUnderWay(t) ==
    \E r \in BriefingCallers : briefing[r].pc # "idle" /\ briefing[r].timeOfDay = t

\* C29: the briefing is stored, dated today, before the push is sent (a call
\* at the send has the briefing of its slot stored); a send that fails leaves
\* the stored briefing and sends nothing; every call that starts once the
\* briefing of the slot is stored for today returns at once; so, with no
\* other call for the slot under way, no push is sent for that slot for the
\* rest of the day.
C29_FailedSendIsNotRetried ==
    /\ [](\A r \in BriefingCallers :
            briefing[r].pc = "send" =>
                dailyBriefing[briefing[r].timeOfDay] = today)
    /\ [][\A r \in BriefingCallers :
            (BriefingFailed(r) /\ briefing[r].pc = "send") =>
                /\ dailyBriefing'[briefing[r].timeOfDay] = today
                /\ pushes' = pushes]_vars
    /\ [][\A r \in BriefingCallers, t \in TimesOfDay :
            (ProcessUserBriefing(r, t) /\ dailyBriefing[t] = today) =>
                UNCHANGED <<briefing, dailyBriefing, generated, pushes>>]_vars
    /\ [][\A t \in TimesOfDay :
            (dailyBriefing[t] = today /\ ~BriefingUnderWay(t) /\ today' = today) =>
                /\ dailyBriefing'[t] = today
                /\ ~BriefingUnderWay(t)'
                /\ CopiesIn(BriefingOf(t, today), pushes')
                       = CopiesIn(BriefingOf(t, today), pushes)]_vars

\* a send has failed after the store: the briefing of a slot is stored for
\* today, no call is under way, no push was sent for the slot today, and a
\* later call for the slot has nothing to do
C29_Witness ==
    \E t \in TimesOfDay :
        /\ dailyBriefing[t] = today
        /\ \A r \in BriefingCallers : briefing[r].pc = "idle"
        /\ CopiesIn(BriefingOf(t, today), pushes) = 0
        /\ CopiesIn(BriefingOf(t, today), generated) = 1
        /\ hasActiveContracts

\* C28: a committed check-in 'kept' adds one Daily Log for today and sets the
\* stored streak to the streak of the client's last contracts snapshot plus
\* one, whatever the stored streak is: a second check-in from the same
\* snapshot leaves the streak one above the snapshot with two logs for today,
\* and a check-in from a snapshot older than a committed violation writes the
\* streak of before the violation plus one.
C28_CheckInCreditsSnapshotStreak ==
    [][\A c \in ContractIds :
           HandleCheckIn(c, "kept") =>
               /\ logs' = AddDoc(logs, NewLog(c, today, "kept", Unset))
               /\ contracts'[c].streak = snapContracts[c].streak + 1
               /\ (contracts[c].streak = snapContracts[c].streak + 1
                       => contracts'[c].streak = contracts[c].streak)]_vars

\* two check-ins 'kept' were committed from one snapshot: two Daily Logs of
\* the contract for today, the stored streak one above the snapshot's
C28_Witness ==
    \E c \in ContractIds :
        /\ contracts[c].exists
        /\ snapContracts[c].exists
        /\ CopiesIn(NewLog(c, today, "kept", Unset), logs) = 2
        /\ contracts[c].streak = snapContracts[c].streak + 1

\* a check-in was committed from a snapshot older than a committed violation:
\* the streak the violation had reset is one above the snapshot's again
C28_WitnessAfterViolation ==
    \E c \in ContractIds :
        /\ contracts[c].exists
        /\ snapContracts[c].exists
        /\ BagCardinality(violations) > 0
        /\ CopiesIn(NewLog(c, today, "kept", Unset), logs) = 1
        /\ contracts[c].streak = snapContracts[c].streak + 1
        /\ contracts[c].streak >= 2

\* C27: weeklyRollover is not idempotent.  A rollover leaves completedCount
\* 0 and lastCheckInDate null, and a contract with no check-in in its week
\* (lastCheckInDate null) is stored with completedCount 0; a rollover that reads completedCount 0 of a contract
\* whose goal is at least 1 writes streak 0, whatever streak the run before
\* it had granted.
C27_SecondRolloverResetsStreak ==
    /\ [](\A c \in ContractIds :
            (contracts[c].exists /\ contracts[c].lastCheckInDate = NoDate) =>
                contracts[c].completedCount = 0)
    /\ [][\A r \in RunIds : WeeklyCommit(r) =>
            \A c \in ContractIds : InResult(r, c) =>
                /\ contracts'[c].completedCount = 0
                /\ contracts'[c].lastCheckInDate = NoDate
                /\ (runs[r].docs[c].completedCount = 0
                        /\ WeeklyGoal(runs[r].docs[c]) >= 1)
                     => contracts'[c].streak = 0]_vars

\* the second run of a Monday: the first run has reset the week of a
\* contract and granted it a streak, and the next run has read that state
\* and is about to commit
C27_Witness ==
    \E r \in RunIds, c \in ContractIds :
        /\ runs[r].job = "weekly"
        /\ runs[r].pc = "commit"
        /\ InResult(r, c)
        /\ runs[r].docs[c].completedCount = 0
        /\ runs[r].docs[c].streak = 1
        /\ contracts[c].weekStart = today
        /\ contracts[c].streak = 1

\* C26: isExpired, as ContractCard computes it from Math.ceil of the time to
\* UTC midnight of endDate, is true exactly when the current UTC date is
\* strictly later than endDate: at every instant of a day it is true for an
\* endDate before that day, false for an endDate of that day or later, and
\* false for a contract with no endDate.
C26_ExpiredIffDateAfterEndDate ==
    /\ \A e \in Days, d \in Days : \A now \in Instants(d) :
           (getDaysRemaining(e, now) < 0) <=> (d > e)
    /\ \A c \in ContractIds : \A now \in Instants(today) :
           /\ isExpired(snapContracts[c], now)
                  <=> (/\ snapContracts[c].endDate # NoDate
                       /\ today > snapContracts[c].endDate)
           /\ isExpired(contracts[c], now)
                  <=> (/\ contracts[c].endDate # NoDate
                       /\ today > contracts[c].endDate)

\* a card whose endDate was yesterday: expired at every instant of today
C26_Witness ==
    \E c \in ContractIds :
        /\ CardShown(c)
        /\ snapContracts[c].endDate = today - 1
        /\ \A now \in Instants(today) : isExpired(snapContracts[c], now)

\* the commit of run r for contract c while another auto-keep run, which
\* had read the same streak, has committed for the same day
SecondDailyCommit(r, c) ==
    /\ DailyCommit(r)
    /\ c \in AutoKept(r)
    /\ CopiesIn(NewLog(c, runs[r].day, "kept", "auto"), logs) = 1
    /\ contracts[c].streak = runs[r].docs[c].streak + 1

\* the commit of run r for contract c, which met its goal, while another
\* rollover, which had read the same streak, has committed on the same day
SecondWeeklyCommit(r, c) ==
    /\ WeeklyCommit(r)
    /\ InResult(r, c)
    /\ metGoal(runs[r].docs[c])
    /\ contracts[c].weekStart = runs[r].day
    /\ contracts[c].completedCount = 0
    /\ contracts[c].streak = runs[r].docs[c].streak + 1

\* C23, as the specification states it: of two overlapping settlement runs
\* that read the same streak, the second to commit leaves the streak 2
\* above the value both had read.
C23_OverlapDoubleCredits ==
    [][\A r \in RunIds, c \in ContractIds :
           (SecondDailyCommit(r, c) \/ SecondWeeklyCommit(r, c)) =>
               contracts'[c].streak = runs[r].docs[c].streak + 2]_vars

\* C23, amended: of two overlapping settlement runs that read the same
\* streak, both commit, and the second to commit writes the same streak
\* again, the value read plus 1: the streak is credited once.  What is
\* doubled by the overlap of two auto-keep runs is the Daily Log and the
\* Journal Entry of the day.
C23_OverlapCreditsOnce ==
    [][\A r \in RunIds, c \in ContractIds :
           /\ (SecondDailyCommit(r, c) \/ SecondWeeklyCommit(r, c)) =>
                  /\ contracts'[c].streak = runs[r].docs[c].streak + 1
                  /\ contracts'[c].streak = contracts[c].streak
           /\ SecondDailyCommit(r, c) =>
                  /\ CopiesIn(NewLog(c, runs[r].day, "kept", "auto"), logs') = 2
                  /\ CopiesIn(JournalEntry(c, "auto"), journal')
                         = CopiesIn(JournalEntry(c, "auto"), journal) + 1]_vars

\* two overlapping auto-keep runs have both committed: two auto logs of one
\* contract and day, two auto journal entries, the streak raised by 1
C23_Witness ==
    \E c \in ContractIds, d \in LogDates :
        /\ CopiesIn(NewLog(c, d, "kept", "auto"), logs) = 2
        /\ CopiesIn(JournalEntry(c, "auto"), journal) = 2
        /\ contracts[c].streak = 1
        /\ \A r \in RunIds : runs[r].job = "idle"

\* C22, as the specification states it: a failure to copy one document is
\* caught for that document alone and listed, and never prevents the copy of
\* another: when the migration returns its results, every document of the
\* source user (contract, journal entry, log) has been copied to the target
\* or has an entry of its own in the error list.
C22_EveryDocumentCopiedOrListed ==
    migration.pc = "returned" =>
        \A d \in SourceDocs : d \in targetDocs \/ d \in results.errors

\* C24, as the specification states it: every contract the create wizard
\* submits has a non-empty title, a non-empty pillar and a behavior of at
\* least 6 characters.
C24_SubmittedContractIsValid ==
    \A c \in submitted : c.title /\ c.pillar /\ c.behavior >= 6

\* C25, as the specification states it: no contract the create wizard
\* submits has more than MAX_EXCEPTIONS exceptions.
C25_ExceptionsAtMostMax ==
    \A c \in submitted : c.exceptions <= MAX_EXCEPTIONS

====
